---- MODULE Spec2Model ----
(***************************************************************************)
(* Model of scripts/sml/dispute_sml_model.py: the decision stump, the      *)
(* gradient-boosting ensemble, the DisputeSmlModel lifecycle               *)
(* (train / predict / save / load) and the SmlOracle adapter.             *)
(*                                                                         *)
(* Numbers.  Feature values are the exact rationals of to_feature_vector   *)
(* scaled by 4200 (the least common multiple of the divisors 100, 7, 4,    *)
(* 168 and 10), so that comparisons between feature values are exact.      *)
(* Scores, probabilities, residuals and stump values are fixed-point       *)
(* numbers with Scale units per 1.0; np.exp is a fixed-point exponential.  *)
(* A float that is the mean of a boolean array (the accuracy) is kept as   *)
(* the pair [sum, count]; count = 0 is the 0/0 that numpy reports as NaN.  *)
(***************************************************************************)
EXTENDS Integers, Naturals, Sequences, FiniteSets, TLC

\* ------------------------------------------------------------------------
\* Bounds of the model
\* ------------------------------------------------------------------------

\* fixed-point resolution: units per 1.0
Scale == 1000

\* ------------------------------------------------------------------------
\* Program constants
\* ------------------------------------------------------------------------

\* SimpleGradientBoosting(n_estimators=50, learning_rate=0.1), n_classes=6
N_ESTIMATORS == 50

N_CLASSES == 6

\* learning_rate = 0.1 = 1 / LearningRateInv
LearningRateInv == 10

N_FEATURES == 12

\* train: `if len(training_data) < 10`
MinRecords == 10

\* train: `if len(X) < 10` after the label filter
MinValid == 10

\* JuryVerdict.PENDING
PENDING == 0

\* ------------------------------------------------------------------------
\* Small helpers
\* ------------------------------------------------------------------------

Min2(a, b) == IF a <= b THEN a ELSE b

Max2(a, b) == IF a >= b THEN a ELSE b

\* int(): truncation toward zero of the rational num / den (den > 0)
Trunc(num, den) == IF num >= 0 THEN num \div den ELSE -((-num) \div den)

\* an array holds values: the sequence f with every element evaluated
Vec(f) == f \o <<>>

RECURSIVE SumSeq(_)
SumSeq(s) == IF s = <<>> THEN 0 ELSE Head(s) + SumSeq(Tail(s))

RECURSIVE MaxSeq(_)
MaxSeq(s) == IF Len(s) = 1 THEN s[1] ELSE Max2(s[1], MaxSeq(Tail(s)))

\* np.argmax: the first index (0-based) holding the maximum
ArgMax(s) == (CHOOSE i \in 1..Len(s) :
                 /\ \A j \in 1..Len(s) : s[j] <= s[i]
                 /\ \A j \in 1..(i-1) : s[j] < s[i]) - 1

\* np.unique: the distinct values, ascending
RECURSIVE SortedOf(_)
SortedOf(S) == IF S = {} THEN <<>>
               ELSE LET m == CHOOSE x \in S : \A y \in S : x <= y
                    IN <<m>> \o SortedOf(S \ {m})

\* ------------------------------------------------------------------------
\* SmlTrainingData
\* ------------------------------------------------------------------------

\* to_feature_vector: the 12 features, each times 4200
to_feature_vector(d) ==
    << d.job_category * 42,
       d.dispute_category * 600,
       d.amount_tier * 1050,
       d.evidence_quality_a * 42,
       d.evidence_quality_b * 42,
       Min2(d.response_time_a, 168) * 25,
       Min2(d.response_time_b, 168) * 25,
       Min2(d.prior_disputes_a, 10) * 420,
       Min2(d.prior_disputes_b, 10) * 420,
       (d.evidence_quality_a - d.evidence_quality_b) * 42,
       IF d.response_time_a + d.response_time_b > 0
          THEN (d.response_time_b - d.response_time_a) * 25 ELSE 0,
       (d.prior_disputes_b - d.prior_disputes_a) * 420 >>

to_label(d) == d.final_verdict

\* ------------------------------------------------------------------------
\* DecisionStump
\* ------------------------------------------------------------------------

\* DecisionStump.__init__
NewStump == [feature_idx |-> 0, threshold |-> 0, left_value |-> 0, right_value |-> 0]

\* residuals[mask].mean()
MeanOver(residuals, rows) ==
    LET s == SumSeq(Vec([k \in 1..Len(rows) |-> residuals[rows[k]]]))
    IN IF s >= 0 THEN s \div Len(rows) ELSE -((-s) \div Len(rows))

\* left_mask / right_mask as the (ascending) row numbers they select
LeftRows(X, feat_idx, thresh) ==
    SelectSeq(Vec([i \in 1..Len(X) |-> i]), LAMBDA i : X[i][feat_idx + 1] <= thresh)

RightRows(X, feat_idx, thresh) ==
    SelectSeq(Vec([i \in 1..Len(X) |-> i]), LAMBDA i : ~(X[i][feat_idx + 1] <= thresh))

\* the (feat_idx, thresh) pairs in the order the two nested loops of
\* DecisionStump.fit visit them, each with its two masks
RECURSIVE Candidates(_, _)
Candidates(X, feat_idx) ==
    IF feat_idx >= N_FEATURES \/ X = <<>> THEN <<>>
    ELSE LET thresholds == SortedOf({X[i][feat_idx + 1] : i \in 1..Len(X)})
         IN Vec([k \in 1..Len(thresholds) |->
                   [feat_idx |-> feat_idx, thresh |-> thresholds[k],
                    left  |-> LeftRows(X, feat_idx, thresholds[k]),
                    right |-> RightRows(X, feat_idx, thresholds[k])]])
            \o Candidates(X, feat_idx + 1)

\* the test with 1 in the place of 2: only an empty mask is refused
AcceptedOne(cand) == ~(Len(cand.left) < 1 \/ Len(cand.right) < 1)

\* the test that lets a candidate through: neither mask selects fewer than
\* 2 rows (otherwise `continue`)
Accepted(cand) == ~(Len(cand.left) < 2 \/ Len(cand.right) < 2)

\* left_mean, right_mean and gain of one accepted candidate
Score(residuals, cand) ==
    LET left_mean  == MeanOver(residuals, cand.left)
        right_mean == MeanOver(residuals, cand.right)
    IN [left_mean |-> left_mean, right_mean |-> right_mean,
        gain |-> - ( SumSeq(Vec([k \in 1..Len(cand.left) |->
                        (residuals[cand.left[k]] - left_mean)
                          * (residuals[cand.left[k]] - left_mean)]))
                   + SumSeq(Vec([k \in 1..Len(cand.right) |->
                        (residuals[cand.right[k]] - right_mean)
                          * (residuals[cand.right[k]] - right_mean)])) )]

\* DecisionStump.fit on a fresh stump, cands = Candidates(X, 0): starting
\* from best_gain = -inf, `gain > best_gain` keeps the first accepted
\* candidate of maximal gain; with none accepted the stump is left as built
StumpFit(cands, residuals) ==
    LET acc    == SelectSeq(cands, Accepted)
        scored == Vec([k \in 1..Len(acc) |-> Score(residuals, acc[k])])
        best   == ArgMax(Vec([k \in 1..Len(acc) |-> scored[k].gain])) + 1
    IN IF acc = <<>> THEN NewStump
       ELSE [feature_idx |-> acc[best].feat_idx, threshold |-> acc[best].thresh,
             left_value |-> scored[best].left_mean,
             right_value |-> scored[best].right_mean]

\* DecisionStump.predict on one row
StumpValue(stump, row) ==
    IF row[stump.feature_idx + 1] <= stump.threshold
    THEN stump.left_value ELSE stump.right_value

\* DecisionStump.predict
StumpPredict(stump, X) == Vec([i \in 1..Len(X) |-> StumpValue(stump, X[i])])

\* ------------------------------------------------------------------------
\* SimpleGradientBoosting
\* ------------------------------------------------------------------------

\* np.exp(-x) for x >= 0, fixed point: a 4th-order Taylor polynomial on
\* [0, Scale/2], and exp(-x) = exp(-x/2)^2 above it
RECURSIVE ExpNeg(_)
ExpNeg(x) ==
    IF x * 2 <= Scale
    THEN LET x2 == (x * x) \div Scale
             x3 == (x2 * x) \div Scale
             x4 == (x3 * x) \div Scale
         IN Scale - x + (x2 \div 2) - (x3 \div 6) + (x4 \div 24)
    ELSE LET h == ExpNeg(x \div 2) IN (h * h) \div Scale

\* _softmax of one row
SoftmaxRow(row) ==
    LET m     == MaxSeq(row)
        exp_x == Vec([c \in 1..Len(row) |-> ExpNeg(m - row[c])])
        total == SumSeq(exp_x)
    IN Vec([c \in 1..Len(row) |-> (exp_x[c] * Scale) \div total])

\* _softmax
Softmax(x) == Vec([i \in 1..Len(x) |-> SoftmaxRow(x[i])])

\* learning_rate * v
Shrink(v) == IF v >= 0 THEN v \div LearningRateInv ELSE -((-v) \div LearningRateInv)

\* SimpleGradientBoosting.__init__
NewEnsemble ==
    [n_estimators |-> N_ESTIMATORS, n_classes |-> N_CLASSES,
     estimators |-> <<>>, initial_predictions |-> <<>>]

\* y_onehot[i, c], c 0-based
OneHot(y, i, c) == IF y[i] = c THEN Scale ELSE 0

\* y_onehot.mean(axis=0)
ClassPriors(y, n_classes) ==
    Vec([c \in 1..n_classes |->
            SumSeq([i \in 1..Len(y) |-> OneHot(y, i, c - 1)]) \div Len(y)])

\* the body of the class loop of fit for class c (0-based): the residuals
\* from the softmax of the predictions as they are now, the stump fitted to
\* them, and the predictions with column c updated
ClassResiduals(predictions, y, c) ==
    LET p == Softmax(predictions)
    IN Vec([i \in 1..Len(y) |-> OneHot(y, i, c) - p[i][c + 1]])

\* predictions[:, c] left as it is
UpdateColumnLater(predictions, X, stump, c) == predictions

\* predictions[:, c] += self.learning_rate * stump.predict(X)
UpdateColumn(predictions, X, stump, c) ==
    LET s == StumpPredict(stump, X)
    IN Vec([i \in 1..Len(predictions) |->
              [predictions[i] EXCEPT ![c + 1] = @ + Shrink(s[i])]])

\* one boosting iteration over the classes in `order`, from
\* st = [predictions, estimators]: the round's stumps are appended
RECURSIVE BoostClasses(_, _, _, _, _)
BoostClasses(acc, X, cands, y, order) ==
    IF order = <<>> THEN acc
    ELSE LET c     == Head(order)
             stump == StumpFit(cands, ClassResiduals(acc.predictions, y, c))
         IN BoostClasses(
               [predictions |-> UpdateColumn(acc.predictions, X, stump, c),
                round_estimators |-> [acc.round_estimators EXCEPT ![c + 1] = stump]],
               X, cands, y, Tail(order))

\* for c in range(self.n_classes)
ClassOrder(n_classes) == Vec([k \in 1..n_classes |-> k - 1])

BoostRound(st, X, cands, y, order) ==
    LET r == BoostClasses([predictions |-> st.predictions,
                           round_estimators |-> Vec([k \in 1..Len(order) |-> NewStump])],
                          X, cands, y, order)
    IN [predictions |-> r.predictions,
        estimators  |-> Append(st.estimators, r.round_estimators)]

\* n consecutive boosting iterations
RECURSIVE BoostRounds(_, _, _, _, _, _)
BoostRounds(st, X, cands, y, n_classes, n) ==
    IF n = 0 THEN st
    ELSE IF n = 1 THEN BoostRound(st, X, cands, y, ClassOrder(n_classes))
    ELSE LET half == BoostRounds(st, X, cands, y, n_classes, n \div 2)
         IN IF Len(half.predictions) = Len(X)
            THEN BoostRounds(half, X, cands, y, n_classes, n - (n \div 2))
            ELSE half

\* SimpleGradientBoosting.fit
Fit(ens, X, y) ==
    LET prior == ClassPriors(y, ens.n_classes)
        done  == BoostRounds([predictions |-> Vec([i \in 1..Len(X) |-> prior]),
                              estimators  |-> ens.estimators],
                             X, Candidates(X, 0), y, ens.n_classes, ens.n_estimators)
    IN [ens EXCEPT !.initial_predictions = prior, !.estimators = done.estimators]

\* SimpleGradientBoosting.predict_proba: the initial scores plus, for every
\* stored round and class, the shrunk value of that round's stump
PredictProba(ens, X) ==
    Softmax(Vec([i \in 1..Len(X) |->
        Vec([c \in 1..Len(ens.initial_predictions) |->
            ens.initial_predictions[c]
              + SumSeq(Vec([r \in 1..Len(ens.estimators) |->
                    Shrink(StumpValue(ens.estimators[r][c], X[i]))]))])]))

\* SimpleGradientBoosting.predict
Predict(ens, X) ==
    LET proba == PredictProba(ens, X)
    IN Vec([i \in 1..Len(X) |-> ArgMax(proba[i])])

\* ------------------------------------------------------------------------
\* Inputs of the model
\* ------------------------------------------------------------------------

\* train stops being called on a manager whose version has reached this
MaxVersion == 3

\* the two DisputeSmlModel objects that share one model_path
Managers == {"m1", "m2"}

\* SmlOracle.__init__: the manager the oracle wraps
OracleModel == "m1"

\* the i-th case of the record pool
Case(i) ==
    LET ea == (i * 37) % 101
        eb == (i * 53 + 11) % 101
    IN [case_id |-> "case",
        job_category |-> i % 3,
        dispute_category |-> i % 8,
        amount_tier |-> i % 5,
        evidence_quality_a |-> ea,
        evidence_quality_b |-> eb,
        response_time_a |-> 6 * (i % 4),
        response_time_b |-> IF i % 2 = 0 THEN 24 ELSE 200,
        prior_disputes_a |-> i % 3,
        prior_disputes_b |-> (i * 5) % 12,
        final_verdict |-> IF i % 7 = 0 THEN 0
                          ELSE IF ea > eb + 30 THEN 1
                          ELSE IF eb > ea + 30 THEN 2
                          ELSE 3 + (i % 3)]

\* n records, the last `bad` of them with a verdict outside [0, 6)
Dataset(n, bad) ==
    Vec([i \in 1..n |->
           IF i > n - bad
           THEN [Case(i) EXCEPT !.final_verdict = IF i % 2 = 0 THEN 6 ELSE -1]
           ELSE Case(i)])

\* the calls of train, <<<<n, bad>>, test_split, shift>>: training_data is
\* Dataset(n, bad), test_split is in percent (the default 0.2, and 0.05),
\* and np.random.permutation returns the rotation by `shift`. Too few
\* records; enough records but too few valid ones; 14 records of which 13
\* are valid; 13 valid records, at either test_split
TrainArgs ==
    {<<<<9, 0>>, 20, 0>>, <<<<10, 1>>, 20, 0>>, <<<<14, 1>>, 20, 3>>,
     <<<<13, 0>>, 20, 0>>, <<<<13, 0>>, 5, 3>>}

\* np.random.permutation(n)
Permutation(n, shift) == Vec([i \in 1..n |-> ((i - 1 + shift) % n) + 1])

\* the cases handed to predict
ProbeCases == {[Case(2) EXCEPT !.case_id = "p2"], [Case(17) EXCEPT !.case_id = "p17"]}

\* ------------------------------------------------------------------------
\* DisputeSmlModel
\* ------------------------------------------------------------------------

VARIABLES
    mgr,    \* the fields of each DisputeSmlModel object
    store,  \* the file at model_path: None, or Some(the pickled dict)
    last,   \* the last call: its name, its object and what it returned
    fit     \* SimpleGradientBoosting.fit taken one class iteration at a time

vars == <<mgr, store, last, fit>>

\* Optional[...]: None, or a held value
None == {}

Some(v) == {v}

The(o) == CHOOSE v \in o : TRUE

\* DisputeSmlModel.__init__; accuracy 0.0 is 0 of 1
NewManager ==
    [model |-> None, version |-> 1, training_samples |-> 0,
     accuracy |-> [sum |-> 0, count |-> 1]]

\* round(): the rational num / den (num >= 0, den > 0) to the nearest
\* integer, halves to the even one
RoundHalfEven(num, den) ==
    LET q == num \div den
        r == num % den
    IN IF 2 * r < den THEN q
       ELSE IF 2 * r > den THEN q + 1
       ELSE IF q % 2 = 0 THEN q ELSE q + 1

\* round(accuracy * 100, digits) in units of 10^-digits percent; the mean of
\* an empty array is NaN and stays NaN
AccuracyPercent(accuracy, units) ==
    IF accuracy.count = 0 THEN [nan |-> TRUE, value |-> 0]
    ELSE [nan |-> FALSE,
          value |-> RoundHalfEven(accuracy.sum * 100 * units, accuracy.count)]

\* the rows of training_data that pass valid_mask = (y >= 0) & (y < 6)
ValidRows(training_data) ==
    SelectSeq(training_data, LAMBDA d : to_label(d) >= 0 /\ to_label(d) < 6)

\* n_test = round(len(X) * test_split), test_split in percent
NTestRounded(n, test_split) == RoundHalfEven(n * test_split, 100)

\* n_test = int(len(X) * test_split), test_split in percent
NTest(n, test_split) == Trunc(n * test_split, 100)

\* test_idx = indices[:n_test], train_idx = indices[n_test:]
SplitIdx(indices, n_test) ==
    [test_idx  |-> SubSeq(indices, 1, n_test),
     train_idx |-> SubSeq(indices, n_test + 1, Len(indices))]

\* X[idx], y[idx] for the valid rows `rows`
Take(rows, idx) ==
    [X |-> Vec([k \in 1..Len(idx) |-> to_feature_vector(rows[idx[k]])]),
     y |-> Vec([k \in 1..Len(idx) |-> to_label(rows[idx[k]])])]

\* train up to the fit without the second early return: the rows that are
\* left after filtering are split however few they are
PrepareUnchecked(training_data, test_split, shift) ==
    IF Len(training_data) < MinRecords
    THEN [error |-> "Need at least 10 training samples"]
    ELSE LET rows == ValidRows(training_data)
             idx  == SplitIdx(Permutation(Len(rows), shift),
                              NTest(Len(rows), test_split))
         IN [n |-> Len(rows),
             test_idx |-> idx.test_idx, train_idx |-> idx.train_idx,
             train |-> Take(rows, idx.train_idx),
             test |-> Take(rows, idx.test_idx)]

\* train up to the fit: the error it returns, or the arrays it has built
\* (indices is what np.random.permutation returned)
Prepare(training_data, test_split, shift) ==
    IF Len(training_data) < MinRecords
    THEN [error |-> "Need at least 10 training samples"]
    ELSE LET rows == ValidRows(training_data)
             idx  == SplitIdx(Permutation(Len(rows), shift),
                              NTest(Len(rows), test_split))
         IN IF Len(rows) < MinValid
            THEN [error |-> "Not enough valid samples after filtering"]
            ELSE [n |-> Len(rows),
                  test_idx |-> idx.test_idx, train_idx |-> idx.train_idx,
                  train |-> Take(rows, idx.train_idx),
                  test |-> Take(rows, idx.test_idx)]

\* Prepare is a function of its arguments: its values for the arguments
\* train is called with, computed once
Prepared == [k \in TrainArgs |-> Prepare(Dataset(k[1][1], k[1][2]), k[2], k[3])]

\* self.model = SimpleGradientBoosting(n_estimators=50, learning_rate=0.1);
\* self.model.fit(X_train, y_train); y_pred = self.model.predict(X_test).
\* `held` is self.model before the call.
Learn(held, train, test) ==
    LET model == Fit(NewEnsemble, train.X, train.y)
    IN [model |-> model, y_pred |-> Predict(model, test.X)]

\* fit and predict are functions of their arguments: their values for the
\* arrays train can be called with, computed once
LearnKeys ==
    {[train |-> Prepared[k].train, test |-> Prepared[k].test] :
        k \in {j \in TrainArgs : "error" \notin DOMAIN Prepared[j]}}

Learned == [k \in LearnKeys |-> Learn(None, k.train, k.test)]

LearnedFor ==
    [k \in TrainArgs |->
        IF "error" \in DOMAIN Prepared[k] THEN Prepared[k]
        ELSE Learned[[train |-> Prepared[k].train, test |-> Prepared[k].test]]]

\* Learn for the call k of train, had train fitted the ensemble it holds
\* instead of a new one
LearnReusing(held, k) ==
    IF held = None \/ "error" \in DOMAIN Prepared[k] THEN LearnedFor[k]
    ELSE LET model == Fit(The(held), Prepared[k].train.X, Prepared[k].train.y)
         IN [model |-> model, y_pred |-> Predict(model, Prepared[k].test.X)]

\* Learn for the call k of train
LearnOnce(held, k) == LearnedFor[k]

\* (y_pred == y_test).mean(): the number of agreeing rows of the number of rows
MeanEqual(y_pred, y_test) ==
    [sum   |-> Len(SelectSeq(Vec([i \in 1..Len(y_test) |-> i]),
                             LAMBDA i : y_pred[i] = y_test[i])),
     count |-> Len(y_test)]

\* the dict save() pickles
SaveData(mg) ==
    [model |-> mg.model, version |-> mg.version,
     training_samples |-> mg.training_samples, accuracy |-> mg.accuracy]

\* the assignments of load() without the one to self.accuracy
LoadedWithoutAccuracy(mg, data) ==
    [mg EXCEPT !.model = data.model, !.version = data.version,
               !.training_samples = data.training_samples]

\* the assignments of load() from the unpickled dict
Loaded(mg, data) ==
    [mg EXCEPT !.model = data.model, !.version = data.version,
               !.training_samples = data.training_samples,
               !.accuracy = data.accuracy]

\* DisputeSmlModel.load on the fields mg
LoadFrom(mg, file) == IF file # None THEN Loaded(mg, The(file)) ELSE mg

\* the fields of the manager when train returns, had it kept self.version
TrainedSameVersion(mg, a, o) ==
    [mg EXCEPT !.model = Some(o.model),
               !.accuracy = MeanEqual(o.y_pred, a.test.y),
               !.training_samples = Len(a.train.X)]

\* the fields of the manager when train returns successfully
Trained(mg, a, o) ==
    [mg EXCEPT !.model = Some(o.model),
               !.accuracy = MeanEqual(o.y_pred, a.test.y),
               !.training_samples = Len(a.train.X),
               !.version = mg.version + 1]

\* DisputeSmlModel.train, called with training_data = Dataset(d[1], d[2])
Train(m, d, test_split, shift) ==
    LET a == Prepared[<<d, test_split, shift>>]
    IN /\ UNCHANGED fit
       /\ IF "error" \in DOMAIN a
          THEN /\ last' = [op |-> "train", m |-> m, d |-> d, result |-> a]
               /\ UNCHANGED <<mgr, store>>
          ELSE /\ mgr[m].version < MaxVersion
               /\ LET o  == LearnOnce(mgr[m].model, <<d, test_split, shift>>)
                      mg == Trained(mgr[m], a, o)
                  IN /\ mgr' = [mgr EXCEPT ![m] = mg]
                     /\ store' = Some(SaveData(mg))
                     /\ last' = [op |-> "train", m |-> m, d |-> d,
                                 n |-> a.n, test_split |-> test_split,
                                 test_idx |-> a.test_idx, train_idx |-> a.train_idx,
                                 result |-> [version |-> mg.version,
                                             training_samples |-> mg.training_samples,
                                             test_samples |-> Len(a.test.X),
                                             accuracy |-> AccuracyPercent(mg.accuracy, 100),
                                             status |-> "success"]]

\* JuryVerdict(i).name
VerdictName(i) ==
    <<"PENDING", "PARTY_A_WINS", "PARTY_B_WINS", "SPLIT", "PARTIAL_A", "PARTIAL_B">>[i + 1]

\* _generate_reasoning: the notes that "; ".join puts together, in order
generate_reasoning(case) ==
    (IF case.evidence_quality_a > case.evidence_quality_b + 20
        THEN <<"Party A has stronger evidence">>
     ELSE IF case.evidence_quality_b > case.evidence_quality_a + 20
        THEN <<"Party B has stronger evidence">>
     ELSE <<>>)
    \o
    (IF 2 * case.response_time_a < case.response_time_b
        THEN <<"Party A responded more quickly">>
     ELSE IF 2 * case.response_time_b < case.response_time_a
        THEN <<"Party B responded more quickly">>
     ELSE <<>>)
    \o
    (IF case.prior_disputes_a > case.prior_disputes_b + 2
        THEN <<"Party A has more prior disputes (negative signal)">>
     ELSE IF case.prior_disputes_b > case.prior_disputes_a + 2
        THEN <<"Party B has more prior disputes (negative signal)">>
     ELSE <<>>)
    \o
    (IF case.dispute_category = 0
        THEN <<"Non-delivery cases typically favor claimant if evidence is clear">>
     ELSE IF case.dispute_category = 1
        THEN <<"Quality disputes often result in partial resolutions">>
     ELSE <<>>)

Reasoning(case) ==
    IF generate_reasoning(case) = <<>>
    THEN <<"Case features are balanced; prediction based on similar historical cases">>
    ELSE generate_reasoning(case)

\* ------------------------------------------------------------------------
\* SmlOracle: the payloads
\* ------------------------------------------------------------------------

\* the decoded case_json payloads: a full one, and one without case_id
Payloads ==
    { [case_id |-> "case-7", job_category |-> 5, dispute_category |-> 1,
       amount_tier |-> 2, evidence_quality_a |-> 85, evidence_quality_b |-> 40,
       response_time_a |-> 6, response_time_b |-> 48,
       prior_disputes_a |-> 0, prior_disputes_b |-> 3],
      [amount_tier |-> 1, evidence_quality_b |-> 90] }

\* the values int(time.time()) takes
Timestamps == {1700000000, 1700000001}

\* dict.get(key, default)
Get(d, key, default) == IF key \in DOMAIN d THEN d[key] ELSE default

\* dict.get(key): None for a missing key
GetOrNone(d, key) == IF key \in DOMAIN d THEN Some(d[key]) ELSE None

\* the SmlTrainingData built from the payload
CaseOfPayload(case_data) ==
    [case_id |-> Get(case_data, "case_id", ""),
     job_category |-> Get(case_data, "job_category", 0),
     dispute_category |-> Get(case_data, "dispute_category", 0),
     amount_tier |-> Get(case_data, "amount_tier", 0),
     evidence_quality_a |-> Get(case_data, "evidence_quality_a", 50),
     evidence_quality_b |-> Get(case_data, "evidence_quality_b", 50),
     response_time_a |-> Get(case_data, "response_time_a", 24),
     response_time_b |-> Get(case_data, "response_time_b", 24),
     prior_disputes_a |-> Get(case_data, "prior_disputes_a", 0),
     prior_disputes_b |-> Get(case_data, "prior_disputes_b", 0),
     final_verdict |-> 0]

\* ------------------------------------------------------------------------
\* DisputeSmlModel.predict and the file
\* ------------------------------------------------------------------------

\* self.model.predict_proba(X)[0] for X = case_data.to_feature_vector()
ProbaOf(ens, case_data) == PredictProba(ens, <<to_feature_vector(case_data)>>)[1]

\* what predict returns when self.model is still None after load()
NotTrained ==
    [verdict |-> PENDING, confidence |-> 0, reasoning |-> <<"Model not trained yet">>]

\* what predict returns from the fields mg it has after its load()
PredictResult(mg, case_data) ==
    IF mg.model = None THEN NotTrained
    ELSE LET proba == ProbaOf(The(mg.model), case_data)
             predicted_class == ArgMax(proba)
         IN [verdict |-> predicted_class,
             verdict_name |-> VerdictName(predicted_class),
             confidence |-> (proba[predicted_class + 1] * 100) \div Scale,
             probabilities |-> Vec([c \in 1..Len(proba) |->
                                      RoundHalfEven(proba[c] * 1000, Scale)]),
             reasoning |-> Reasoning(case_data),
             model_version |-> mg.version,
             model_accuracy |-> AccuracyPercent(mg.accuracy, 10)]

\* the fields of the manager after a predict that never calls load()
AfterPredictNoLoad(mg, file) == mg

\* the fields of the manager after predict: it loads when it holds no model
AfterPredict(mg, file) == IF mg.model = None THEN LoadFrom(mg, file) ELSE mg

\* DisputeSmlModel.predict
PredictCase(m, case_data) ==
    /\ mgr' = [mgr EXCEPT ![m] = AfterPredict(mgr[m], store)]
    /\ last' = [op |-> "predict", m |-> m, case_data |-> case_data,
                called_load |-> (mgr[m].model = None),
                result |-> PredictResult(AfterPredict(mgr[m], store), case_data)]
    /\ UNCHANGED <<store, fit>>

\* DisputeSmlModel.save
Save(m) ==
    /\ store' = Some(SaveData(mgr[m]))
    /\ last' = [op |-> "save", m |-> m]
    /\ UNCHANGED <<mgr, fit>>

\* DisputeSmlModel.load
Load(m) ==
    /\ mgr' = [mgr EXCEPT ![m] = LoadFrom(mgr[m], store)]
    /\ last' = [op |-> "load", m |-> m]
    /\ UNCHANGED <<store, fit>>

\* DisputeSmlModel(model_path): the object m is replaced by a new one on the
\* same path
New(m) ==
    /\ mgr' = [mgr EXCEPT ![m] = NewManager]
    /\ last' = [op |-> "new", m |-> m]
    /\ UNCHANGED <<store, fit>>

\* ------------------------------------------------------------------------
\* SmlOracle.get_prediction_for_case
\* ------------------------------------------------------------------------

\* the keys of `prediction` the publication record is built from
PublishedKeys == {"verdict", "confidence", "model_version"}

\* SmlOracle.get_prediction_for_case: a key missing from the prediction
\* raises KeyError
GetPredictionForCase(case_data, now) ==
    LET m  == OracleModel
        mg == AfterPredict(mgr[m], store)
        prediction == PredictResult(mg, CaseOfPayload(case_data))
    IN /\ mgr' = [mgr EXCEPT ![m] = mg]
       /\ last' = IF PublishedKeys \subseteq DOMAIN prediction
                  THEN [op |-> "get_prediction_for_case", m |-> m, raised |-> "",
                        result |-> [case_id |-> GetOrNone(case_data, "case_id"),
                                    predicted_verdict |-> prediction.verdict,
                                    confidence |-> prediction.confidence,
                                    model_version |-> prediction.model_version,
                                    timestamp |-> now]]
                  ELSE [op |-> "get_prediction_for_case", m |-> m,
                        raised |-> "KeyError"]
       /\ UNCHANGED <<store, fit>>

\* ------------------------------------------------------------------------
\* The lifecycle
\* ------------------------------------------------------------------------

Init ==
    /\ mgr = [m \in Managers |-> NewManager]
    /\ store = None
    /\ last = [op |-> "none"]
    /\ fit = [pc |-> "idle"]

Next ==
    \/ \E m \in Managers, k \in TrainArgs : Train(m, k[1], k[2], k[3])
    \/ \E m \in Managers, c \in ProbeCases : PredictCase(m, c)
    \/ \E m \in Managers : Save(m)
    \/ \E m \in Managers : Load(m)
    \/ \E m \in Managers : New(m)
    \/ \E p \in Payloads, now \in Timestamps : GetPredictionForCase(p, now)

Spec == Init /\ [][Next]_vars

\* ------------------------------------------------------------------------
\* SimpleGradientBoosting.fit, one iteration of the class loop at a time
\* ------------------------------------------------------------------------

\* the calls of train whose X_train, y_train fit is followed on
FitArgs == {<<<<13, 0>>, 20, 0>>, <<<<13, 0>>, 5, 3>>}

FitX(k) == Prepared[k].train.X

FitY(k) == Prepared[k].train.y

\* fit(X, y) on a new ensemble up to the first boosting iteration;
\* round_start keeps the predictions as they were when the round began
FitStart(k) ==
    /\ fit.pc = "idle"
    /\ LET prior == ClassPriors(FitY(k), NewEnsemble.n_classes)
           tiled == Vec([i \in 1..Len(FitX(k)) |-> prior])
       IN fit' = [pc |-> "class", k |-> k, round |-> 1, c |-> 0,
                  initial_predictions |-> prior,
                  predictions |-> tiled, round_start |-> tiled,
                  residuals |-> <<>>, round_estimators |-> <<>>,
                  estimators |-> <<>>]
    /\ UNCHANGED <<mgr, store, last>>

\* the body of `for c in range(self.n_classes)` for class fit.c
FitClass ==
    /\ fit.pc = "class" /\ fit.c < N_CLASSES
    /\ LET X == FitX(fit.k)
           residuals == ClassResiduals(fit.predictions, FitY(fit.k), fit.c)
           stump == StumpFit(Candidates(X, 0), residuals)
       IN fit' = [fit EXCEPT !.residuals = residuals,
                             !.round_estimators = Append(@, stump),
                             !.predictions = UpdateColumn(@, X, stump, fit.c),
                             !.c = @ + 1]
    /\ UNCHANGED <<mgr, store, last>>

\* self.estimators.append(round_estimators), and the next iteration of
\* `for _ in range(self.n_estimators)` or the end of fit
FitEndRound ==
    /\ fit.pc = "class" /\ fit.c = N_CLASSES
    /\ fit' = IF fit.round < N_ESTIMATORS
              THEN [fit EXCEPT !.estimators = Append(@, fit.round_estimators),
                               !.round = @ + 1, !.c = 0,
                               !.round_start = fit.predictions,
                               !.round_estimators = <<>>]
              ELSE [fit EXCEPT !.estimators = Append(@, fit.round_estimators),
                               !.pc = "done"]
    /\ UNCHANGED <<mgr, store, last>>

FitNext ==
    \/ \E k \in FitArgs : FitStart(k)
    \/ FitClass
    \/ FitEndRound

SpecFit == Init /\ [][FitNext]_vars

\* ------------------------------------------------------------------------
\* DecisionStump.fit, one (feature, threshold) candidate at a time
\* ------------------------------------------------------------------------

\* the calls stump.fit(X, residuals) that are followed: the rows of X are
\* the feature vectors of the cases `rows` of the record pool. Three rows;
\* four equal rows; four and six different rows; residuals all zero; no row
StumpInputs ==
    {[rows |-> <<1, 2, 3>>, residuals |-> <<300, -200, -100>>],
     [rows |-> <<1, 1, 1, 1>>, residuals |-> <<500, -500, 250, -250>>],
     [rows |-> <<1, 2, 3, 4>>, residuals |-> <<300, -200, -100, 400>>],
     [rows |-> <<1, 2, 3, 4>>, residuals |-> <<0, 0, 0, 0>>],
     [rows |-> <<1, 2, 3, 4, 5, 6>>,
      residuals |-> <<-167, 833, -167, -167, -167, -167>>],
     [rows |-> <<>>, residuals |-> <<>>]}

StumpX(input) ==
    Vec([k \in 1..Len(input.rows) |-> to_feature_vector(Case(input.rows[k]))])

\* DecisionStump() and the start of fit: best_gain = -inf is None
StumpStart(input) ==
    /\ fit.pc = "idle"
    /\ fit' = [pc |-> "candidate", input |-> input, i |-> 1,
               best_gain |-> None, stump |-> NewStump]
    /\ UNCHANGED <<mgr, store, last>>

\* the body of the threshold loop for the i-th (feature, threshold) pair
StumpCandidate ==
    /\ fit.pc = "candidate"
    /\ LET cands == Candidates(StumpX(fit.input), 0)
           cand  == cands[fit.i]
           sc    == Score(fit.input.residuals, cand)
       IN /\ fit.i <= Len(cands)
          /\ fit' = IF ~Accepted(cand) THEN [fit EXCEPT !.i = @ + 1]
                    ELSE IF fit.best_gain = None \/ sc.gain > The(fit.best_gain)
                    THEN [fit EXCEPT !.i = @ + 1,
                                     !.best_gain = Some(sc.gain),
                                     !.stump = [feature_idx |-> cand.feat_idx,
                                                threshold |-> cand.thresh,
                                                left_value |-> sc.left_mean,
                                                right_value |-> sc.right_mean]]
                    ELSE [fit EXCEPT !.i = @ + 1]
    /\ UNCHANGED <<mgr, store, last>>

\* the end of the two loops: fit returns
StumpFitted ==
    /\ fit.pc = "candidate"
    /\ fit.i > Len(Candidates(StumpX(fit.input), 0))
    /\ fit' = [fit EXCEPT !.pc = "fitted"]
    /\ UNCHANGED <<mgr, store, last>>

\* stump.predict(X) on the rows the stump was fitted to
StumpPredicts ==
    /\ fit.pc = "fitted"
    /\ fit' = [pc |-> "predicted", input |-> fit.input, stump |-> fit.stump,
               predicted |-> StumpPredict(fit.stump, StumpX(fit.input))]
    /\ UNCHANGED <<mgr, store, last>>

StumpNext ==
    \/ \E input \in StumpInputs : StumpStart(input)
    \/ StumpCandidate
    \/ StumpFitted
    \/ StumpPredicts

SpecStump == Init /\ [][StumpNext]_vars

\* ------------------------------------------------------------------------
\* Properties of train
\* ------------------------------------------------------------------------

\* the call of train that `l` records returned {"error": ...}
IsError(l) == l.op = "train" /\ "error" \in DOMAIN l.result

\* the call of train that `l` records returned the success dict
IsSuccess(l) == l.op = "train" /\ "status" \in DOMAIN l.result

\* training_data has fewer than 10 records, or fewer than 10 whose label is
\* in [0, 6)
TooFew(d) ==
    \/ Len(Dataset(d[1], d[2])) < 10
    \/ Len(ValidRows(Dataset(d[1], d[2]))) < 10

\* C1: a call of train with fewer than 10 records, or fewer than 10 validly
\* labelled ones, returns the error dict, and leaves the file at model_path
\* and the fields of every manager as they were, whatever they were.
C1_ErrorLeavesStore ==
    [][(last'.op = "train" /\ TooFew(last'.d))
         => (IsError(last') /\ store' = store /\ mgr' = mgr)]_vars

\* C1 happens: train has returned the filtering error to a manager that
\* holds a model, while the file holds a trained artifact
C1_Witness ==
    /\ IsError(last)
    /\ last.result.error = "Not enough valid samples after filtering"
    /\ mgr[last.m].model # None
    /\ store # None /\ The(store).model # None

\* C2: a call of train that returns success leaves the version of its
\* manager exactly one above what it was before the call, and the returned
\* dict and the saved file carry the new version.
C2_VersionPlusOne ==
    [][IsSuccess(last')
         => /\ mgr'[last'.m].version = mgr[last'.m].version + 1
            /\ last'.result.version = mgr'[last'.m].version
            /\ store' # None
            /\ The(store').version = mgr'[last'.m].version]_vars

\* C2 happens: a manager that had trained before has trained again, on at
\* least 10 validly labelled records with at least two distinct labels
C2_Witness ==
    /\ IsSuccess(last)
    /\ last.result.version = 3
    /\ last.result.training_samples >= 10
    /\ Cardinality({to_label(r) : r \in
          {ValidRows(Dataset(last.d[1], last.d[2]))[i] : i \in 1..last.n}}) >= 2

\* ------------------------------------------------------------------------
\* Properties of the persisted artifact
\* ------------------------------------------------------------------------

\* C3: every successful train that overwrites an artifact persists a version
\* greater than the version of the artifact it overwrites, whichever manager
\* on the same model_path trains. The code does not keep this: a manager
\* that has not loaded counts from its own version 1.
C3_PersistedVersionGrows ==
    [][(IsSuccess(last') /\ store # None)
         => The(store').version > The(store).version]_vars

\* the keys of the dict predict returns from a model
FullKeys ==
    {"verdict", "verdict_name", "confidence", "probabilities", "reasoning",
     "model_version", "model_accuracy"}

C5_SaveLoadRoundTrip ==
    [][/\ (last'.op = "load" /\ last.op = "save")
          => /\ SaveData(mgr'[last'.m]) = The(store)
             /\ SaveData(mgr'[last'.m]) = SaveData(mgr'[last.m])
             /\ \A c \in ProbeCases :
                   PredictResult(AfterPredict(mgr'[last'.m], store'), c)
                     = PredictResult(AfterPredict(mgr'[last.m], store'), c)
       /\ (last'.op = "load" /\ last.op = "load" /\ last'.m = last.m)
          => mgr' = mgr]_vars

\* C5 happens: a manager has loaded a trained artifact and now holds what
\* the other manager holds
C5_Witness ==
    /\ last.op = "load"
    /\ store # None /\ The(store).model # None
    /\ The(store).accuracy # NewManager.accuracy
    /\ \E a \in Managers \ {last.m} :
          SaveData(mgr[a]) = The(store) /\ SaveData(mgr[last.m]) = The(store)

\* ------------------------------------------------------------------------
\* Properties of the split and of the accuracy
\* ------------------------------------------------------------------------

\* the elements of a sequence
Range(s) == {s[i] : i \in DOMAIN s}

\* the two index arrays are disjoint and cover the n rows, each row once
Partition(l) ==
    /\ Range(l.test_idx) \cap Range(l.train_idx) = {}
    /\ Range(l.test_idx) \cup Range(l.train_idx) = 1..l.n
    /\ Len(l.test_idx) + Len(l.train_idx) = l.n
    /\ l.result.test_samples = Len(l.test_idx)
    /\ l.result.training_samples = Len(l.train_idx)

\* C6 as stated: the test set of a successful train has round(n *
\* test_fraction) rows, the other rows are the training rows, and the two
\* sets are disjoint and cover the n rows.
C6_TestSizeRounded ==
    IsSuccess(last)
      => /\ Len(last.test_idx) = RoundHalfEven(last.n * last.test_split, 100)
         /\ Partition(last)

\* C6, amended: the test set of a successful train has int(n * test_fraction)
\* rows, the product truncated toward zero: the k with
\* k <= n * test_fraction < k + 1; the other n - k rows are the training
\* rows, and the two sets are disjoint and cover the n rows.
C6_TestSizeTruncated ==
    IsSuccess(last)
      => /\ 100 * Len(last.test_idx) <= last.n * last.test_split
         /\ last.n * last.test_split < 100 * (Len(last.test_idx) + 1)
         /\ Partition(last)

\* C6 happens: 13 valid rows at test_split 0.2 are split 2 to 11, where
\* rounding 2.6 would give 3
C6_Witness ==
    /\ IsSuccess(last)
    /\ last.n = 13 /\ last.test_split = 20
    /\ Len(last.test_idx) = 2 /\ Len(last.train_idx) = 11
    /\ RoundHalfEven(last.n * last.test_split, 100) = 3

\* the accuracy is a fraction in [0, 1]: so many agreeing rows of at least
\* one row
IsFraction(accuracy) ==
    accuracy.count > 0 /\ 0 <= accuracy.sum /\ accuracy.sum <= accuracy.count

\* C7: the accuracy of every trained artifact, in memory and in the file, is
\* a fraction in [0, 1], the share of the test rows predicted right, also
\* when the test set is empty. The code does not keep this: the mean of no
\* rows is NaN.
C7_AccuracyIsFraction ==
    /\ \A m \in Managers : mgr[m].model # None => IsFraction(mgr[m].accuracy)
    /\ (store # None /\ The(store).model # None) => IsFraction(The(store).accuracy)

\* ------------------------------------------------------------------------
\* Properties of the oracle
\* ------------------------------------------------------------------------

\* C8: get_prediction_for_case returns the record of case_id,
\* predicted_verdict, confidence, model_version and timestamp for every
\* payload in every state of its manager. The code does not keep this: the
\* default result of predict has no model_version.
C8_OracleReturnsRecord ==
    last.op = "get_prediction_for_case"
      => /\ last.raised = ""
         /\ DOMAIN last.result =
              {"case_id", "predicted_verdict", "confidence", "model_version",
               "timestamp"}

\* ------------------------------------------------------------------------
\* Properties of the ensemble a manager holds
\* ------------------------------------------------------------------------

\* an ensemble of exactly 50 rounds of 6 stumps and 6 initial scores
FittedOnce(ens) ==
    /\ Len(ens.estimators) = 50
    /\ \A r \in 1..Len(ens.estimators) : Len(ens.estimators[r]) = 6
    /\ Len(ens.initial_predictions) = 6

\* C10: the ensemble a manager holds has exactly 50 rounds of 6 stumps each,
\* and after a successful train it is the ensemble a manager that never
\* held one gets from the same rows: nothing of the ensemble held before is
\* in it; the ensembles of the other managers stay as they were.
C10_FreshEnsemble ==
    /\ \A m \in Managers : mgr[m].model # None => FittedOnce(The(mgr[m].model))
    /\ store # None /\ The(store).model # None => FittedOnce(The(The(store).model))
    /\ IsSuccess(last)
         => mgr[last.m].model
              = Some(Learned[[train |-> Take(ValidRows(Dataset(last.d[1], last.d[2])),
                                             last.train_idx),
                               test |-> Take(ValidRows(Dataset(last.d[1], last.d[2])),
                                             last.test_idx)]].model)

\* C10 happens: a manager at version 2, which holds a fitted ensemble, has
\* trained again
C10_Witness ==
    /\ IsSuccess(last)
    /\ mgr[last.m].version = 3
    /\ mgr[last.m].model # None
    /\ FittedOnce(The(mgr[last.m].model))

\* ------------------------------------------------------------------------
\* Properties of the class loop of fit
\* ------------------------------------------------------------------------

\* the class whose iteration has just ended
JustDone == fit.c - 1

\* the raw scores class c sees when the updates of this round's stumps for
\* the classes before c are applied to the scores of the round's start
SeenBy(c) ==
    LET X == FitX(fit.k)
    IN Vec([i \in 1..Len(X) |->
          Vec([k \in 1..N_CLASSES |->
             fit.round_start[i][k]
               + (IF k - 1 < c
                  THEN Shrink(StumpValue(fit.round_estimators[k], X[i]))
                  ELSE 0)])])

\* the round that has just ended, run again from round_start with the
\* classes taken from the last to the first
Reversed ==
    BoostRound([predictions |-> fit.round_start, estimators |-> <<>>],
               FitX(fit.k), Candidates(FitX(fit.k), 0), FitY(fit.k),
               Vec([k \in 1..N_CLASSES |-> N_CLASSES - k]))

\* C9 as stated: the residuals of every class are those computed from the
\* raw scores of the start of the round, and taking the classes of a round
\* in the opposite order gives the same stumps and the same raw scores.
C9_ResidualsFromRoundStart ==
    /\ (fit.pc = "class" /\ fit.c >= 1)
         => fit.residuals = ClassResiduals(fit.round_start, FitY(fit.k), JustDone)
    /\ (fit.pc = "class" /\ fit.c = N_CLASSES)
         => /\ Reversed.predictions = fit.predictions
            /\ Reversed.estimators = <<fit.round_estimators>>

\* C9, amended: the residuals of class c are computed from the raw scores
\* as they are when the loop reaches c: the columns of the classes before c
\* already hold this round's update, the columns from c on are those of the
\* start of the round.
C9_ResidualsFromCurrentScores ==
    (fit.pc = "class" /\ fit.c >= 1)
      => /\ fit.residuals =
               Vec([i \in 1..Len(FitY(fit.k)) |->
                      OneHot(FitY(fit.k), i, JustDone)
                        - SoftmaxRow(SeenBy(JustDone)[i])[JustDone + 1]])
         /\ fit.predictions = SeenBy(fit.c)

\* C9 happens: at the end of a round the residuals of the last class differ
\* from those the scores of the round's start give, and the round taken in
\* the opposite order ends with other raw scores
C9_Witness ==
    /\ fit.pc = "class" /\ fit.c = N_CLASSES
    /\ fit.residuals # ClassResiduals(fit.round_start, FitY(fit.k), JustDone)
    /\ Reversed.predictions # fit.predictions

\* ------------------------------------------------------------------------
\* Properties of DecisionStump.fit
\* ------------------------------------------------------------------------

\* the rows of X at or below the threshold t in feature f (0-based), and
\* the rows above it
AtOrBelow(X, f, t) == {r \in 1..Len(X) : X[r][f + 1] <= t}

Above(X, f, t) == {r \in 1..Len(X) : X[r][f + 1] > t}

\* no value of any feature splits the rows of X into two partitions of at
\* least 2 rows each
NoSplit(X) ==
    \A f \in 0..(N_FEATURES - 1) : \A r \in 1..Len(X) :
        \/ Cardinality(AtOrBelow(X, f, X[r][f + 1])) < 2
        \/ Cardinality(Above(X, f, X[r][f + 1])) < 2

\* C11: the stump never holds a (feature, threshold) whose at-or-below
\* partition or above partition has fewer than 2 rows: it is as built, or
\* it holds a split with at least 2 rows on either side. When no candidate
\* of any feature has 2 rows on either side, the fitted stump is the one
\* built (feature 0, threshold 0, both values 0), it is what StumpFit gives
\* the ensemble, its predict is 0 for every row, and the column update of
\* the round leaves the scores as they are.
C11_NoDegenerateSplit ==
    fit.pc \in {"candidate", "fitted", "predicted"}
      => LET X == StumpX(fit.input)
         IN /\ \/ fit.stump = [feature_idx |-> 0, threshold |-> 0,
                               left_value |-> 0, right_value |-> 0]
               \/ /\ Cardinality(AtOrBelow(X, fit.stump.feature_idx,
                                            fit.stump.threshold)) >= 2
                  /\ Cardinality(Above(X, fit.stump.feature_idx,
                                       fit.stump.threshold)) >= 2
            /\ (fit.pc \in {"fitted", "predicted"})
                 => fit.stump = StumpFit(Candidates(X, 0), fit.input.residuals)
            /\ (fit.pc \in {"fitted", "predicted"} /\ NoSplit(X))
                 => fit.stump = [feature_idx |-> 0, threshold |-> 0,
                                 left_value |-> 0, right_value |-> 0]
            /\ (fit.pc = "predicted" /\ NoSplit(X))
                 => /\ Len(fit.predicted) = Len(X)
                    /\ \A r \in 1..Len(X) : fit.predicted[r] = 0
                    /\ \A c \in 0..(N_CLASSES - 1) :
                          LET scores == Vec([r \in 1..Len(X) |->
                                              Vec([k \in 1..N_CLASSES |-> 100 * k + r])])
                          IN UpdateColumn(scores, X, fit.stump, c) = scores

\* C11 happens: three different rows, which no threshold splits 2 to 2,
\* have left the stump as built, with candidates of one row on a side
\* refused on the way, and its predict has returned 0 for the three rows
C11_Witness ==
    /\ fit.pc = "predicted"
    /\ Len(fit.input.rows) = 3
    /\ NoSplit(StumpX(fit.input))
    /\ \E f \in 0..(N_FEATURES - 1) : \E r \in 1..3 :
          Cardinality(AtOrBelow(StumpX(fit.input), f, StumpX(fit.input)[r][f + 1])) = 1
    /\ fit.stump = NewStump
    /\ fit.predicted = <<0, 0, 0>>

====
